---- MODULE Spec2Model ----
(***************************************************************************)
(* Data-acquisition pipeline of lifespan-crawler (src/lib.rs):             *)
(* get_data = cache lookup -> remote fetch (+ "Common" aggregate + cache   *)
(* save) -> bundled default data.                                          *)
(*                                                                         *)
(* f64 values are fixed-point integers in units of 1/Scale, or NaN.        *)
(* A file's content is a sequence of tokens (one token stands for a run of *)
(* bytes of the JSON text), so truncation, partial writes and overlapping  *)
(* writes by two processes are visible.                                    *)
(***************************************************************************)
EXTENDS Integers, Sequences, FiniteSets, TLC

\* ------------------------------------------------------------- bounds
MaxRows == 2
MaxCalls == 2
MaxWikitables == 3
MaxFaults == 1

\* ---------------------------------------------------------- constants
\* fixed-point unit: a value v stands for v / Scale
Scale == 10 * 100
\* place.unwrap_or(2)
DefaultPlace == 2
\* .nth(2): the third element of class "wikitable"
TableIndex == 2
\* tr.find(Name("td")).take(4)
TakeCells == 4

Procs == {1, 2}
\* the process that makes the calls when they come one after another
Caller == CHOOSE p \in Procs : \A q \in Procs : p <= q

VARIABLES
    cacheDir,     \* the parent directory of the cache path exists
    cacheFile,    \* what is at the cache path: absent, a directory, or a file with data
    defaultFile,  \* what is at ./default_expectancy.json
    netRows,      \* which rows the remote page's selected table can hold
    pc,           \* per process: position inside get_data
    ops,          \* per process: what the running call has done so far
    result,       \* per process: fetch()'s `result` HashMap
    nrows,        \* per process: rows of the tbody consumed so far
    buf,          \* per process: serde_json::to_string(content), being written
    off,          \* per process: file offset of the open `output` handle
    calls,        \* per process: number of get_data calls started
    lastCall,     \* the call that returned most recently
    lastSaved,    \* the table whose write_all completed last, while its blob stands
    raced,        \* a File::create ran while another process was inside write_all
    faults        \* I/O failures the file system has answered with so far

vars == <<cacheDir, cacheFile, defaultFile, netRows, pc, ops, result, nrows,
          buf, off, calls, lastCall, lastSaved, raced, faults>>

\* ------------------------------------------------------------- values
\* f64
Fin(v) == [nan |-> FALSE, v |-> v]
NaN == [nan |-> TRUE, v |-> 0]

\* struct CountryInfo
CountryInfo(a, m, f) == [all |-> a, male |-> m, female |-> f]

\* HashMap<String, CountryInfo>: a function from the set of its keys
EmptyMap == << >>
Keys(map) == DOMAIN map
\* HashMap::insert: a later insert of the same key overwrites
Insert(map, k, v) == [x \in (DOMAIN map) \cup {k} |-> IF x = k THEN v ELSE map[x]]

\* f64::round of the rational n / d (d > 0): half away from zero
Round(n, d) == IF n >= 0 THEN (2 * n + d) \div (2 * d)
                         ELSE -((2 * (-n) + d) \div (2 * d))

RECURSIVE Pow10(_)
Pow10(k) == IF k = 0 THEN 1 ELSE 10 * Pow10(k - 1)

\* shave_round(num, place) with num = n / (d * Scale), result in units of 1/Scale
shave_round(n, d, place) ==
    LET base == Pow10(place)
    IN  (Round(n * base, d * Scale) * Scale) \div base

RECURSIVE SumOver(_, _, _)
SumOver(map, ks, field) ==
    IF ks = {} THEN 0
    ELSE LET k == CHOOSE x \in ks : TRUE
         IN  map[k][field].v + SumOver(map, ks \ {k}, field)

\* one field of calculate_common: total_x / total, rounded; 0.0 / 0.0 and any sum
\* over a NaN are NaN
CommonField(content, field) ==
    LET total == Cardinality(Keys(content))
    IN  IF total = 0 \/ \E k \in Keys(content) : content[k][field].nan
        THEN NaN
        ELSE Fin(shave_round(SumOver(content, Keys(content), field), total, DefaultPlace))

calculate_common(content) ==
    CountryInfo(CommonField(content, "all"),
                CommonField(content, "male"),
                CommonField(content, "female"))

\* fetch(): result.insert("Common", calculate_common(&result))
InsertCommon(map) == Insert(map, "Common", calculate_common(map))

\* ---------------------------------------------------------------- JSON
\* A blob is a sequence of tokens: "{", one token per "key":{...} entry, "}".
\* A zero-filled hole (a write past the end of a truncated file) is a "nul" token.
TOpen == [t |-> "{"]
TClose == [t |-> "}"]
TZero == [t |-> "nul"]

\* serde_json writes a non-finite f64 as null
ToJson(x) == IF x.nan THEN [null |-> TRUE, v |-> 0] ELSE [null |-> FALSE, v |-> x.v]
TEntry(k, info) ==
    [t |-> "entry", k |-> k, all |-> ToJson(info.all), male |-> ToJson(info.male),
     female |-> ToJson(info.female)]

RECURSIVE Perms(_)
Perms(S) ==
    IF S = {} THEN {<< >>}
    ELSE UNION {{<<x>> \o q : q \in Perms(S \ {x})} : x \in S}

\* serde_json::to_string(content): HashMap iteration order is unspecified, so every
\* order of the entries is a possible output
Serializations(content) ==
    {<<TOpen>> \o [i \in 1..Len(q) |-> TEntry(q[i], content[q[i]])] \o <<TClose>>
        : q \in Perms(Keys(content))}

\* an entry deserializes into CountryInfo only if its three fields are numbers
EntryOk(tok) ==
    /\ tok.t = "entry"
    /\ ~tok.all.null /\ ~tok.male.null /\ ~tok.female.null

WellFormed(data) ==
    /\ Len(data) >= 2
    /\ data[1] = TOpen
    /\ data[Len(data)] = TClose
    /\ \A i \in 2..(Len(data) - 1) : EntryOk(data[i])

RECURSIVE MapOf(_, _)
MapOf(data, i) ==
    IF i < 2 THEN EmptyMap
    ELSE Insert(MapOf(data, i - 1), data[i].k,
                CountryInfo(Fin(data[i].all.v), Fin(data[i].male.v), Fin(data[i].female.v)))

\* serde_json::from_str::<HashMap<String, CountryInfo>>
Deserialize(data) ==
    IF WellFormed(data)
    THEN [ok |-> TRUE, map |-> MapOf(data, Len(data) - 1)]
    ELSE [ok |-> FALSE, map |-> EmptyMap]

\* ------------------------------------------------------------- results
\* anyhow::Result<HashMap<..>> as seen by the caller, or a panic
NoRet == [kind |-> "none", map |-> EmptyMap, err |-> ""]
RetOk(map) == [kind |-> "ok", map |-> map, err |-> ""]
RetErr(e) == [kind |-> "err", map |-> EmptyMap, err |-> e]
RetPanic == [kind |-> "panic", map |-> EmptyMap, err |-> ""]

\* --------------------------------------------------------------- files
Absent == [kind |-> "absent", data |-> << >>]
Directory == [kind |-> "dir", data |-> << >>]
RegularFile(data) == [kind |-> "file", data |-> data]

\* has_cache(): metadata(path) succeeded and is_file(); a stat error counts as false
has_cache(file, statOk) == statOk /\ file.kind = "file"

\* fs::read_to_string(path)? then from_str(..)?
ReadAndParse(file, ioOk) ==
    IF ~ioOk \/ file.kind # "file" THEN RetErr("io")
    ELSE LET d == Deserialize(file.data)
         IN  IF d.ok THEN RetOk(d.map) ELSE RetErr("json")

\* faulty variant, for comparison: the default table gets its "Common" entry recomputed
receive_default_expectancy_recomputed(file, ioOk) ==
    LET r == ReadAndParse(file, ioOk)
    IN  IF r.kind = "ok"
        THEN RetOk(InsertCommon([k \in Keys(r.map) \ {"Common"} |-> r.map[k]]))
        ELSE r

\* receive_default_expectancy()
receive_default_expectancy(file, ioOk) == ReadAndParse(file, ioOk)

\* write(2) of `chunk` at offset `at`: bytes beyond the written range stay, a gap
\* before it is zero-filled
WriteAt(data, at, chunk) ==
    LET n == IF Len(data) > at + Len(chunk) THEN Len(data) ELSE at + Len(chunk)
    IN  [i \in 1..n |->
            IF i > at /\ i <= at + Len(chunk) THEN chunk[i - at]
            ELSE IF i <= Len(data) THEN data[i]
            ELSE TZero]

\* ------------------------------------------------------ the remote page
Links == {"France", "Japan", "Common"}
\* cell texts a page row can carry (the page's own rows end in a newline)
SampleCells == {<<"81.5", "78.7", "84.3\n">>, <<" 84.617", "81.6", "87.6\n">>}
BadCell == "n/a"
CellRows ==
    SampleCells \cup
    {[c EXCEPT ![i] = BadCell] : c \in {<<"81.5", "78.7", "84.3\n">>}, i \in 1..(TakeCells - 1)}

\* A row of the tbody as fetch() sees it: its first TakeCells td elements. tds is
\* their number, link the text of the first <a> of the first td ("" when it has
\* none), cells the texts of the tds after the first.
AllRows ==
    {[tds |-> 0, link |-> "", cells |-> << >>]} \cup
    {[tds |-> n, link |-> l, cells |-> SubSeq(c, 1, n - 1)]
        : n \in 1..TakeCells, l \in Links \cup {""}, c \in CellRows}

\* rows with four tds, a country link and numeric cells
PlainRows ==
    {r \in AllRows : r.tds = TakeCells /\ r.link \in {"France", "Japan"}
                     /\ r.cells = <<"81.5", "78.7", "84.3\n">>}

\* the rows the page serves in this run
PageRows == IF netRows = "plain" THEN PlainRows ELSE AllRows

\* str::trim
Trim(text) ==
    CASE text = "84.3\n" -> "84.3"
      [] text = "87.6\n" -> "87.6"
      [] text = " 84.617" -> "84.617"
      [] OTHER -> text

\* str::parse::<f64>, in units of 1/Scale
ParseF64(text) ==
    CASE text = "81.5" -> [ok |-> TRUE, val |-> Fin(81500)]
      [] text = "78.7" -> [ok |-> TRUE, val |-> Fin(78700)]
      [] text = "84.3" -> [ok |-> TRUE, val |-> Fin(84300)]
      [] text = "84.617" -> [ok |-> TRUE, val |-> Fin(84617)]
      [] text = "81.6" -> [ok |-> TRUE, val |-> Fin(81600)]
      [] text = "87.6" -> [ok |-> TRUE, val |-> Fin(87600)]
      [] text = "NaN" -> [ok |-> TRUE, val |-> NaN]
      [] OTHER -> [ok |-> FALSE, val |-> NaN]

\* extract_country_name(tds.next()): None without a first td or without a link in it
extract_country_name(row) ==
    IF row.tds = 0 THEN ""
    ELSE row.link

\* tds.next().unwrap().text().trim().parse::<f64>()? for the i-th cell after the first:
\* "panic" when the td is missing, "err" when the text is no number
Cell(row, i) ==
    IF Len(row.cells) < i THEN [kind |-> "panic", val |-> NaN]
    ELSE LET r == ParseF64(Trim(row.cells[i]))
         IN  IF r.ok THEN [kind |-> "ok", val |-> r.val]
             ELSE [kind |-> "err", val |-> NaN]

\* the body of the `for tr` loop for one row: the cells are taken in order, and the
\* first missing or unparsable one ends the function
ParseRow(row) ==
    LET name == extract_country_name(row)
        a == Cell(row, 1)
        m == Cell(row, 2)
        f == Cell(row, 3)
        NoInfo == CountryInfo(NaN, NaN, NaN)
    IN  IF name = "" THEN [kind |-> "skip", name |-> "", info |-> NoInfo]
        ELSE IF a.kind # "ok" THEN [kind |-> a.kind, name |-> name, info |-> NoInfo]
        ELSE IF m.kind # "ok" THEN [kind |-> m.kind, name |-> name, info |-> NoInfo]
        ELSE IF f.kind # "ok" THEN [kind |-> f.kind, name |-> name, info |-> NoInfo]
        ELSE [kind |-> "insert", name |-> name,
              info |-> CountryInfo(a.val, m.val, f.val)]

\* ------------------------------------------------------------- initial
\* a table some earlier run cached, and the bundled default table
SampleTable ==
    InsertCommon(Insert(EmptyMap, "France",
                        CountryInfo(Fin(81500), Fin(78700), Fin(84300))))
DefaultTable ==
    Insert(Insert(EmptyMap, "Japan", CountryInfo(Fin(84617), Fin(81600), Fin(87600))),
           "Common", CountryInfo(Fin(72000), Fin(70000), Fin(75000)))

BlobOf(map) == CHOOSE b \in Serializations(map) : TRUE

NoCall == [by |-> 0, ops |-> {}, ret |-> NoRet]
NoSave == [saved |-> FALSE, map |-> EmptyMap]
Saved(map) == [saved |-> TRUE, map |-> map]

InitProcs ==
    /\ pc = [p \in Procs |-> "idle"]
    /\ ops = [p \in Procs |-> {}]
    /\ result = [p \in Procs |-> EmptyMap]
    /\ nrows = [p \in Procs |-> 0]
    /\ buf = [p \in Procs |-> << >>]
    /\ off = [p \in Procs |-> 0]
    /\ calls = [p \in Procs |-> 0]
    /\ lastCall = NoCall
    /\ lastSaved = NoSave
    /\ raced = FALSE
    /\ faults = 0

Init ==
    /\ InitProcs
    /\ \E c \in {<<FALSE, Absent>>, <<TRUE, Absent>>, <<TRUE, Directory>>,
                 <<TRUE, RegularFile(BlobOf(SampleTable))>>,
                 <<TRUE, RegularFile(<<TOpen>>)>>} :
          cacheDir = c[1] /\ cacheFile = c[2]
    /\ defaultFile \in {RegularFile(BlobOf(DefaultTable)), RegularFile(<< >>)}
    /\ netRows = "any"

\* two processes started against a fresh cache path
InitConc ==
    /\ InitProcs
    /\ cacheDir \in BOOLEAN
    /\ cacheFile = Absent
    /\ defaultFile = RegularFile(BlobOf(DefaultTable))
    /\ netRows = "plain"

\* ------------------------------------------------------------- actions
\* the outcomes of one file-system call: success, or (while the fault budget lasts)
\* an error
IoOutcomes == IF faults < MaxFaults THEN {TRUE, FALSE} ELSE {TRUE}
Io(ok) == faults' = IF ok THEN faults ELSE faults + 1

\* processes between File::create and the end of write_all
Writers == {p \in Procs : pc[p] = "write"}

\* get_data returns (or panics): the caller sees `r`
Return(p, r, did) ==
    /\ pc' = [pc EXCEPT ![p] = "idle"]
    /\ ops' = [ops EXCEPT ![p] = {}]
    /\ result' = [result EXCEPT ![p] = EmptyMap]
    /\ nrows' = [nrows EXCEPT ![p] = 0]
    /\ buf' = [buf EXCEPT ![p] = << >>]
    /\ off' = [off EXCEPT ![p] = 0]
    /\ UNCHANGED raced
    /\ lastCall' = [by |-> p, ops |-> did, ret |-> r]

\* the process moves on inside get_data
Goto(p, where, did) ==
    /\ pc' = [pc EXCEPT ![p] = where]
    /\ ops' = [ops EXCEPT ![p] = did]
    /\ UNCHANGED lastCall

TotalCalls == calls[1] + calls[2]

\* a caller enters get_data while no other call is running
GetData(p) ==
    /\ p = Caller
    /\ \A q \in Procs : pc[q] = "idle"
    /\ TotalCalls < MaxCalls
    /\ calls' = [calls EXCEPT ![p] = @ + 1]
    /\ Goto(p, "has_cache", {})
    /\ UNCHANGED <<cacheDir, cacheFile, defaultFile, netRows, result, nrows, buf, off,
                   raced, faults, lastSaved>>

\* a process enters get_data, once, whatever the other process is doing
GetDataConc(p) ==
    /\ pc[p] = "idle"
    /\ calls[p] = 0
    /\ calls' = [calls EXCEPT ![p] = @ + 1]
    /\ Goto(p, "has_cache", {})
    /\ UNCHANGED <<cacheDir, cacheFile, defaultFile, netRows, result, nrows, buf, off,
                   raced, faults, lastSaved>>

\* match has_cache()
HasCache(p) ==
    /\ pc[p] = "has_cache"
    /\ \E statOk \in IoOutcomes :
          /\ Io(statOk)
          /\ IF has_cache(cacheFile, statOk)
             THEN Goto(p, "load", ops[p] \cup {"found"})
             ELSE Goto(p, "fetch", ops[p] \cup (IF statOk THEN {} ELSE {"stat_err"}))
    /\ UNCHANGED <<cacheDir, cacheFile, defaultFile, netRows, result, nrows, buf, off,
                   calls, raced, lastSaved>>

\* faulty variant, for comparison: a cache that cannot be read or deserialized falls through to the fetch
LoadCache_fallthrough(p) ==
    /\ pc[p] = "load"
    /\ \E ioOk \in IoOutcomes :
          /\ Io(ioOk)
          /\ IF ReadAndParse(cacheFile, ioOk).kind = "ok"
             THEN Return(p, ReadAndParse(cacheFile, ioOk), ops[p] \cup {"load"})
             ELSE /\ Goto(p, "fetch", ops[p] \cup {"load"})
                  /\ UNCHANGED <<result, nrows, buf, off, raced>>
    /\ UNCHANGED <<cacheDir, cacheFile, defaultFile, netRows, calls, lastSaved>>

\* Ok(true) => read_to_string(..)?, from_str(..)?
LoadCache(p) ==
    /\ pc[p] = "load"
    /\ \E ioOk \in IoOutcomes :
          /\ Io(ioOk)
          /\ Return(p, ReadAndParse(cacheFile, ioOk),
                    ops[p] \cup {"load"} \cup (IF ioOk THEN {} ELSE {"io_err"}))
    /\ UNCHANGED <<cacheDir, cacheFile, defaultFile, netRows, calls, lastSaved>>

\* fetch(), up to the row loop: the GET, the document, nth(2), the tbody
Fetch(p) ==
    /\ pc[p] = "fetch"
    /\ \/ \* reqwest::blocking::get(..)? or .text()? fails
          /\ Goto(p, "default", ops[p] \cup {"fetch", "net_err"})
          /\ UNCHANGED <<result, nrows, buf, off, raced>>
       \/ \E n \in 0..MaxWikitables, tbody \in BOOLEAN :
             IF n <= TableIndex
             THEN \* nth(2) is None: the loop is skipped, "Common" is inserted, Ok
                  /\ Goto(p, "mkdir", ops[p] \cup {"fetch", "no_table", "fetch_ok"})
                  /\ result' = [result EXCEPT ![p] = InsertCommon(EmptyMap)]
                  /\ UNCHANGED <<nrows, buf, off, raced>>
             ELSE IF ~tbody
             THEN \* find(Name("tbody")).next().unwrap() panics
                  Return(p, RetPanic, ops[p] \cup {"fetch", "no_tbody"})
             ELSE /\ Goto(p, "rows", ops[p] \cup {"fetch"})
                  /\ UNCHANGED <<result, nrows, buf, off, raced>>
    /\ UNCHANGED <<cacheDir, cacheFile, defaultFile, netRows, calls, faults, lastSaved>>

\* one iteration of `for tr in tbody.find(Name("tr"))`
FetchRow(p) ==
    /\ pc[p] = "rows"
    /\ nrows[p] < MaxRows
    /\ \E row \in PageRows :
          LET r == ParseRow(row)
              \* a row whose country name was found and that has fewer than four tds
              seen == ops[p] \cup (IF r.kind # "skip" /\ row.tds < TakeCells
                                   THEN {"short_row"} ELSE {})
          IN  CASE r.kind = "skip" ->
                     /\ Goto(p, "rows", seen)
                     /\ nrows' = [nrows EXCEPT ![p] = @ + 1]
                     /\ UNCHANGED <<result, buf, off, raced>>
                [] r.kind = "insert" ->
                     /\ Goto(p, "rows", seen \cup {"row"})
                     /\ nrows' = [nrows EXCEPT ![p] = @ + 1]
                     /\ result' = [result EXCEPT ![p] = Insert(@, r.name, r.info)]
                     /\ UNCHANGED <<buf, off, raced>>
                [] r.kind = "err" ->
                     /\ Goto(p, "default", seen \cup {"parse_err"})
                     /\ result' = [result EXCEPT ![p] = EmptyMap]
                     /\ nrows' = [nrows EXCEPT ![p] = 0]
                     /\ UNCHANGED <<buf, off, raced>>
                [] r.kind = "panic" ->
                     Return(p, RetPanic, seen \cup {"unwrap_none"})
    /\ UNCHANGED <<cacheDir, cacheFile, defaultFile, netRows, calls, faults, lastSaved>>

\* the loop ends: insert the average, fetch() returns Ok(result)
FetchEnd(p) ==
    /\ pc[p] = "rows"
    /\ Goto(p, "mkdir", ops[p] \cup {"fetch_ok"})
    /\ result' = [result EXCEPT ![p] = InsertCommon(@)]
    /\ nrows' = [nrows EXCEPT ![p] = 0]
    /\ UNCHANGED <<cacheDir, cacheFile, defaultFile, netRows, buf, off, calls, raced,
                   faults, lastSaved>>

\* set_tmp_file_path: ensure_tmp_exist()?
EnsureTmpExist(p) ==
    /\ pc[p] = "mkdir"
    /\ \E ok \in IoOutcomes :
          /\ Io(ok)
          /\ IF ok
             THEN /\ Goto(p, "create", ops[p] \cup {"mkdir"})
                  /\ cacheDir' = TRUE
                  /\ UNCHANGED <<result, nrows, buf, off, raced>>
             ELSE /\ Return(p, RetErr("io"), ops[p] \cup {"save_err"})
                  /\ UNCHANGED cacheDir
    /\ UNCHANGED <<cacheFile, defaultFile, netRows, calls, lastSaved>>

\* faulty variant, for comparison: the file is opened for writing without being truncated
FileCreate_no_truncate(p) ==
    /\ pc[p] = "create"
    /\ \E ok \in IoOutcomes :
          /\ Io(ok)
          /\ IF ok /\ cacheFile.kind # "dir"
             THEN /\ cacheFile' = RegularFile(cacheFile.data)
                  /\ lastSaved' = NoSave
                  /\ \E b \in Serializations(result[p]) : buf' = [buf EXCEPT ![p] = b]
                  /\ off' = [off EXCEPT ![p] = 0]
                  /\ raced' = (raced \/ Writers \ {p} # {})
                  /\ Goto(p, "write",
                          ops[p] \cup {"create"}
                                \cup (IF cacheFile.kind = "file" THEN {"truncate"} ELSE {}))
                  /\ UNCHANGED <<result, nrows>>
             ELSE /\ Return(p, RetErr("io"), ops[p] \cup {"save_err"})
                  /\ UNCHANGED <<cacheFile, lastSaved>>
    /\ UNCHANGED <<cacheDir, defaultFile, netRows, calls>>

\* set_tmp_file_path: File::create(path)? truncates the file; then to_string(content)
FileCreate(p) ==
    /\ pc[p] = "create"
    /\ \E ok \in IoOutcomes :
          /\ Io(ok)
          /\ IF ok /\ cacheFile.kind # "dir"
             THEN /\ cacheFile' = RegularFile(<< >>)
                  /\ lastSaved' = NoSave
                  /\ \E b \in Serializations(result[p]) : buf' = [buf EXCEPT ![p] = b]
                  /\ off' = [off EXCEPT ![p] = 0]
                  /\ raced' = (raced \/ Writers \ {p} # {})
                  /\ Goto(p, "write",
                          ops[p] \cup {"create"}
                                \cup (IF cacheFile.kind = "file" THEN {"truncate"} ELSE {}))
                  /\ UNCHANGED <<result, nrows>>
             ELSE \* EISDIR, or any other failure of open(2)
                  /\ Return(p, RetErr("io"), ops[p] \cup {"save_err"})
                  /\ UNCHANGED <<cacheFile, lastSaved>>
    /\ UNCHANGED <<cacheDir, defaultFile, netRows, calls>>

\* faulty variant, for comparison: a failed write is ignored and the fetched table returned all the same
WriteAll_keep_fetched(p) ==
    /\ pc[p] = "write"
    /\ \/ \E k \in 1..(Len(buf[p]) - off[p]) :
             /\ cacheFile' = RegularFile(WriteAt(cacheFile.data, off[p],
                                                 SubSeq(buf[p], off[p] + 1, off[p] + k)))
             /\ IF off[p] + k = Len(buf[p])
                THEN /\ Return(p, RetOk(result[p]), ops[p] \cup {"write"})
                     /\ lastSaved' = Saved(result[p])
                ELSE /\ off' = [off EXCEPT ![p] = @ + k]
                     /\ Goto(p, "write", ops[p])
                     /\ UNCHANGED <<result, nrows, buf, raced, lastSaved>>
             /\ UNCHANGED faults
       \/ /\ faults < MaxFaults
          /\ faults' = faults + 1
          /\ Return(p, RetOk(result[p]), ops[p] \cup {"save_err"})
          /\ UNCHANGED <<cacheFile, lastSaved>>
    /\ UNCHANGED <<cacheDir, defaultFile, netRows, calls>>

\* set_tmp_file_path: output.write_all(..)?, one write(2) per step; after the last
\* one get_data returns Ok(hashmap)
WriteAll(p) ==
    /\ pc[p] = "write"
    /\ \/ \E k \in 1..(Len(buf[p]) - off[p]) :
             /\ cacheFile' = RegularFile(WriteAt(cacheFile.data, off[p],
                                                 SubSeq(buf[p], off[p] + 1, off[p] + k)))
             /\ IF off[p] + k = Len(buf[p])
                THEN /\ Return(p, RetOk(result[p]), ops[p] \cup {"write"})
                     /\ lastSaved' = Saved(result[p])
                ELSE /\ off' = [off EXCEPT ![p] = @ + k]
                     /\ Goto(p, "write", ops[p])
                     /\ UNCHANGED <<result, nrows, buf, raced, lastSaved>>
             /\ UNCHANGED faults
       \/ /\ faults < MaxFaults
          /\ faults' = faults + 1
          /\ Return(p, RetErr("io"), ops[p] \cup {"save_err"})
          /\ UNCHANGED <<cacheFile, lastSaved>>
    /\ UNCHANGED <<cacheDir, defaultFile, netRows, calls>>

\* faulty variant, for comparison: the default table, once loaded, is saved at the cache path
ReceiveDefault_cached(p) ==
    /\ pc[p] = "default"
    /\ \E ioOk \in IoOutcomes :
          /\ Io(ioOk)
          /\ Return(p, receive_default_expectancy(defaultFile, ioOk),
                    ops[p] \cup {"default"} \cup (IF ioOk THEN {} ELSE {"io_err"}))
          /\ cacheFile' =
                IF receive_default_expectancy(defaultFile, ioOk).kind = "ok"
                   /\ cacheFile.kind # "dir"
                THEN RegularFile(defaultFile.data)
                ELSE cacheFile
    /\ UNCHANGED <<cacheDir, defaultFile, netRows, calls, lastSaved>>

\* Ok(receive_default_expectancy()?)
ReceiveDefault(p) ==
    /\ pc[p] = "default"
    /\ \E ioOk \in IoOutcomes :
          /\ Io(ioOk)
          /\ Return(p, receive_default_expectancy(defaultFile, ioOk),
                    ops[p] \cup {"default"} \cup (IF ioOk THEN {} ELSE {"io_err"}))
    /\ UNCHANGED <<cacheDir, cacheFile, defaultFile, netRows, calls, lastSaved>>

Step(p) ==
    \/ HasCache(p)
    \/ LoadCache(p)
    \/ Fetch(p)
    \/ FetchRow(p)
    \/ FetchEnd(p)
    \/ EnsureTmpExist(p)
    \/ FileCreate(p)
    \/ WriteAll(p)
    \/ ReceiveDefault(p)

Next == \E p \in Procs : GetData(p) \/ Step(p)
NextConc == \E p \in Procs : GetDataConc(p) \/ Step(p)

\* calls one after another
Spec == Init /\ [][Next]_vars
\* two overlapping calls, one per process
SpecConc == InitConc /\ [][NextConc]_vars

\* ------------------------------------------------------------- claims
NoCallRunning == \A p \in Procs : pc[p] = "idle"
\* what default_expectancy.json deserializes to, when it does
DefaultLoads == defaultFile.kind = "file" /\ Deserialize(defaultFile.data).ok
DefaultMap == Deserialize(defaultFile.data).map
\* the call met an I/O failure of the file system
IoFailed(call) == call.ops \cap {"stat_err", "io_err", "save_err"} # {}
SaveOps == {"mkdir", "create", "write", "save_err"}

\* C1: no cache, the GET fails with a network error: get_data returns exactly the
\* table default_expectancy.json deserializes to, and no error.
C1_NetworkErrorFallsBackToDefault ==
    ("net_err" \in lastCall.ops /\ DefaultLoads /\ ~IoFailed(lastCall))
        => /\ "found" \notin lastCall.ops
           /\ lastCall.ret = RetOk(DefaultMap)

C1_Witness ==
    /\ "net_err" \in lastCall.ops
    /\ lastCall.ret.kind = "ok"
    /\ lastCall.ret.map = DefaultTable
    /\ cacheFile.kind = "absent"

\* C2: the cache is a regular file whose content cannot be read or deserialized:
\* get_data returns that error, has attempted neither the fetch nor the default
\* load, and every step of the call leaves the cache file as it was.
C2_State ==
    /\ ("found" \in lastCall.ops /\ lastCall.ret.kind # "ok")
          => /\ lastCall.ret.kind = "err"
             /\ lastCall.ops \cap ({"fetch", "default"} \cup SaveOps) = {}
    /\ ("found" \in lastCall.ops /\ NoCallRunning
           /\ ("io_err" \in lastCall.ops \/ ~Deserialize(cacheFile.data).ok))
          => lastCall.ret \in {RetErr("io"), RetErr("json")}
C2_Step ==
    \A p \in Procs :
        (pc[p] = "load" /\ pc'[p] # "load")
            => /\ cacheFile' = cacheFile
               /\ cacheDir' = cacheDir
               /\ "found" \in lastCall'.ops
C2_CorruptCacheIsHardError == []C2_State /\ [][C2_Step]_vars

C2_Witness ==
    /\ "found" \in lastCall.ops
    /\ lastCall.ret = RetErr("json")
    /\ cacheFile.kind = "file"
    /\ NoCallRunning

\* C3 (as claimed): fewer than three "wikitable" elements: the fetch counts as
\* failed, get_data returns the default table and writes nothing to the cache path.
C3_MissingTableFallsBack ==
    ("no_table" \in lastCall.ops /\ DefaultLoads /\ ~IoFailed(lastCall))
        => /\ lastCall.ret = RetOk(DefaultMap)
           /\ lastCall.ops \cap SaveOps = {}

\* C4: the fetch succeeded and persisting failed (create_dir_all, File::create or
\* write_all): get_data returns that filesystem error, neither the fetched table
\* nor the default data.
C4_PersistFailureIsHardError ==
    ("fetch_ok" \in lastCall.ops /\ "save_err" \in lastCall.ops)
        => /\ lastCall.ret = RetErr("io")
           /\ "default" \notin lastCall.ops

C4_Witness ==
    /\ "fetch_ok" \in lastCall.ops
    /\ "save_err" \in lastCall.ops
    /\ "create" \in lastCall.ops
    /\ "row" \in lastCall.ops
    /\ lastCall.ret.kind = "err"

\* C5 (as claimed): a row with fewer than four td cells makes the parse fail, the
\* failure is caught, and get_data returns the default table without an error and
\* without terminating abnormally.
C5_ShortRowFallsBack ==
    ("short_row" \in lastCall.ops /\ DefaultLoads /\ ~IoFailed(lastCall))
        => lastCall.ret = RetOk(DefaultMap)

\* C6: the cache file is created or overwritten only by a call that found no cache
\* and whose fetch succeeded; a call that finds the cache performs no fetch and
\* leaves the blob unchanged; a call that falls back to default data creates no
\* cache file; no call deletes the cache.
C6_State ==
    /\ \A p \in Procs : "found" \in ops[p] => "fetch" \notin ops[p]
    /\ "found" \in lastCall.ops => lastCall.ops \cap ({"fetch"} \cup SaveOps) = {}
    /\ "default" \in lastCall.ops => lastCall.ops \cap SaveOps = {}
C6_Step ==
    /\ cacheFile' # cacheFile
          => \E p \in Procs :
                /\ pc[p] \in {"create", "write"}
                /\ pc'[p] # pc[p] \/ off'[p] # off[p]
                /\ "found" \notin ops[p]
                /\ "fetch_ok" \in ops[p]
    /\ \A p \in Procs : "found" \in ops[p] => cacheFile' = cacheFile
    /\ \A p \in Procs : pc[p] = "default" => cacheFile' = cacheFile
    /\ cacheFile.kind = "file" => cacheFile'.kind = "file"
C6_CacheWrittenOnlyAfterFetch == []C6_State /\ [][C6_Step]_vars

\* a cached blob was loaded by one call and overwritten by the next, whose stat failed
C6_Witness ==
    /\ {"stat_err", "fetch_ok", "truncate", "write"} \subseteq lastCall.ops
    /\ lastCall.ret.kind = "ok"
    /\ "France" \in Keys(lastCall.ret.map)
    /\ cacheFile.data \in Serializations(lastCall.ret.map)

\* the mean of `field` over the entries other than "Common", to 2 decimal places
OtherKeys(map) == Keys(map) \ {"Common"}
MeanOfOthers(map, field) ==
    LET n == Cardinality(OtherKeys(map))
        sum == SumOver(map, OtherKeys(map), field)
    IN  IF n = 0 THEN NaN ELSE Fin(10 * Round(sum, 10 * n))

\* a table a call returned from a fresh fetch
Fetched(call) == call.ret.kind = "ok" /\ "fetch_ok" \in call.ops

\* C7 (as claimed): a freshly fetched table with at least one parsed row holds a
\* "Common" entry whose fields are the means, to 2 decimal places, of the fields of
\* all the other entries of the returned table.
C7_CommonIsMeanOfOthers ==
    (Fetched(lastCall) /\ "row" \in lastCall.ops /\ OtherKeys(lastCall.ret.map) # {})
        => /\ "Common" \in Keys(lastCall.ret.map)
           /\ \A field \in {"all", "male", "female"} :
                 lastCall.ret.map["Common"][field] = MeanOfOthers(lastCall.ret.map, field)

\* C8 (as claimed): every field of every entry of a table returned from the fetch
\* path or persisted is a non-negative finite number.
C8_FieldsFiniteNonNegative ==
    /\ Fetched(lastCall)
          => \A k \in Keys(lastCall.ret.map), field \in {"all", "male", "female"} :
                /\ ~lastCall.ret.map[k][field].nan
                /\ lastCall.ret.map[k][field].v >= 0
    /\ \A i \in 1..Len(cacheFile.data) :
          cacheFile.data[i].t = "entry"
             => /\ ~cacheFile.data[i].all.null
                /\ ~cacheFile.data[i].male.null
                /\ ~cacheFile.data[i].female.null

\* C9 (as claimed): after a call that found no cache, fetched and returned T, the
\* next call finds the cache, returns T and does not error.
C9_NextReturn ==
    (lastCall' # lastCall /\ Fetched(lastCall) /\ "write" \in lastCall.ops
        /\ ~IoFailed(lastCall'))
        => /\ "found" \in lastCall'.ops
           /\ lastCall'.ret = RetOk(lastCall.ret.map)
C9_NextCallLoadsWhatWasFetched == [][C9_NextReturn]_vars

\* ------------------------------------------- two overlapping get_data calls
BothReturned == \A p \in Procs : calls[p] = 1 /\ pc[p] = "idle"
NoNulls(data) ==
    \A i \in 1..Len(data) :
        data[i].t = "entry"
           => ~data[i].all.null /\ ~data[i].male.null /\ ~data[i].female.null
Wrote(call) == "write" \in call.ops

\* C10 (as claimed): whatever the interleaving, a call that observes the cache as
\* present loads a complete table that some call saved, and once both calls have
\* returned the blob is exactly the table of the call that wrote last.
C10_RacingCallsSeeCompleteBlobs ==
    /\ ("found" \in lastCall.ops /\ faults = 0
           /\ NoNulls(cacheFile.data) /\ \A p \in Procs : NoNulls(buf[p]))
          => /\ lastCall.ret.kind = "ok"
             /\ \/ lastSaved.saved /\ lastCall.ret.map = lastSaved.map
                \/ \E p \in Procs : pc[p] = "write" /\ lastCall.ret.map = result[p]
    /\ (BothReturned /\ lastSaved.saved)
          => cacheFile.data \in Serializations(lastSaved.map)

\* C10 (amended): a call that observes the cache as present never fetches, never
\* loads the default data and never writes; it returns an I/O error or what the blob
\* deserializes to as it stood when read, which is the complete blob the other call
\* saved once that call has returned from its save, and may be an empty or partial
\* blob before. Once both calls have returned, no save having failed and no
\* File::create having run while the other call was writing, the blob is exactly
\* the table of the call that wrote last.
C10_State ==
    /\ "found" \in lastCall.ops
          => /\ lastCall.ops \subseteq {"found", "load", "io_err"}
             /\ lastCall.ret.kind \in {"ok", "err"}
    /\ (BothReturned /\ ~raced /\ lastSaved.saved)
          => cacheFile.data \in Serializations(lastSaved.map)
C10_Step ==
    \A p \in Procs :
        (pc[p] = "load" /\ pc'[p] = "idle")
            => /\ cacheFile' = cacheFile
               /\ lastCall'.by = p
               /\ lastCall'.ret \in {ReadAndParse(cacheFile, TRUE), RetErr("io")}
               /\ (Writers = {} /\ Wrote(lastCall) /\ lastCall.ret.kind = "ok")
                     => /\ cacheFile.data \in Serializations(lastCall.ret.map)
                        /\ (NoNulls(cacheFile.data) /\ "io_err" \notin lastCall'.ops)
                              => lastCall'.ret = RetOk(lastCall.ret.map)
C10_RacingCallsAmended == []C10_State /\ [][C10_Step]_vars

\* a call found the file the other call had created and not yet finished writing
C10_Witness ==
    /\ "found" \in lastCall.ops
    /\ lastCall.ret = RetErr("json")
    /\ \E p \in Procs : pc[p] = "write" /\ NoNulls(buf[p]) /\ off[p] < Len(buf[p])
    /\ "io_err" \notin lastCall.ops

====
